---- MODULE Spec2Model ----
(***************************************************************************)
(* Model of the prefix index of src/src/trie.py (class Trie), under the    *)
(* specification Spec, and of the command loop of src/src/app.py with the  *)
(* CSV functions of src/src/io_utils.py, under the specification CliSpec.  *)
(*                                                                         *)
(* A TrieNode object is identified by the symbol path that leads to it     *)
(* from the root (the root is <<>>).  The field `children` of a node is a  *)
(* Python dict: it is modelled by the sequence of its keys in insertion    *)
(* order (the order dict iteration yields); the child object under key c   *)
(* of node p is the node Append(p, c).  `nodes` is the store of the        *)
(* TrieNode objects that are still referenced.                             *)
(* Symbols are small naturals (1 = "a", 2 = "b", ...), words are           *)
(* sequences of symbols, scores are integers.                              *)
(***************************************************************************)
EXTENDS Integers, Sequences, FiniteSets, TLC

\* ---- bounds of the model ------------------------------------------------
\* at most MaxWords words are stored at any time
MaxWords == 3
\* complete is called with k in -1..MaxK
MaxK == 2

\* The input domains: words (and prefixes) are all the sequences of at most
\* two symbols over a two-symbol alphabet, the empty word included; they are
\* kept fixed so that the state space stays within reach when MaxWords grows.
Alphabet == {1, 2}
WordLens == 0 .. 2
Words == UNION {[1 .. n -> Alphabet] : n \in WordLens}
Scores == {0, 1}
KVals == -1 .. MaxK

VARIABLES
    trie,   \* the Trie object: [nodes, count_words, count_nodes]
    pre,    \* history: the Trie object as it was when the last call began
    op,     \* the last call: [name, word, freq, k]
    ret,    \* what the last call returned: [ok, words, stats, items]
    shadow, \* history: word -> score of its latest insert, removed words left out
    cli,    \* app.main: [line, keep_running, running, out, err]
    fs      \* the files: path -> rows

vars == <<trie, pre, op, ret, shadow, cli, fs>>

\* ---- helpers --------------------------------------------------------------
Range(s) == {s[i] : i \in 1 .. Len(s)}

Max(S) == CHOOSE x \in S : \A y \in S : y <= x

Min2(a, b) == IF a < b THEN a ELSE b

\* Python's < on str: lexicographic, a proper prefix is smaller
RECURSIVE StrLess(_, _)
StrLess(a, b) ==
    IF a = <<>> THEN b # <<>>
    ELSE IF b = <<>> THEN FALSE
    ELSE IF a[1] # b[1] THEN a[1] < b[1]
    ELSE StrLess(Tail(a), Tail(b))

\* Python's < on the tuples (freq, word) that the heap holds
PairLess(p, q) ==
    \/ p[1] < q[1]
    \/ p[1] = q[1] /\ StrLess(p[2], q[2])

\* ---- TrieNode / Trie constructors ----------------------------------------
TrieNode == [children |-> <<>>, is_end |-> FALSE, freq |-> 0]

root == <<>>

Trie == [nodes |-> (root :> TrieNode), count_words |-> 0, count_nodes |-> 1]

\* ---- _walk ----------------------------------------------------------------
\* path holds <<node, ch>> pairs; the root's pair carries 0 for ''
RECURSIVE walkLoop(_, _, _, _, _)
walkLoop(t, text, i, current, path) ==
    IF i > Len(text)
    THEN [found |-> TRUE, node |-> current, path |-> path]
    ELSE LET ch == text[i]
         IN IF ch \notin Range(t.nodes[current].children)
            THEN [found |-> FALSE, node |-> root, path |-> <<>>]
            ELSE walkLoop(t, text, i + 1, Append(current, ch),
                          Append(path, <<Append(current, ch), ch>>))

walk(t, text) == walkLoop(t, text, 1, root, << <<root, 0>> >>)

\* ---- insert ---------------------------------------------------------------
\* mutant: _count_nodes grows for every symbol, also when the child exists
RECURSIVE insertLoopCountsAll(_, _, _, _)
insertLoopCountsAll(t, word, i, node) ==
    IF i > Len(word)
    THEN [trie |-> t, node |-> node]
    ELSE LET ch == word[i]
             nxt == Append(node, ch)
             t1 == IF ch \notin Range(t.nodes[node].children)
                   THEN [t EXCEPT
                           !.nodes = [@ EXCEPT ![node].children = Append(@, ch)]
                                     @@ (nxt :> TrieNode),
                           !.count_nodes = @ + 1]
                   ELSE [t EXCEPT !.count_nodes = @ + 1]
         IN insertLoopCountsAll(t1, word, i + 1, nxt)

RECURSIVE insertLoop(_, _, _, _)
insertLoop(t, word, i, node) ==
    IF i > Len(word)
    THEN [trie |-> t, node |-> node]
    ELSE LET ch == word[i]
             nxt == Append(node, ch)
             t1 == IF ch \notin Range(t.nodes[node].children)
                   THEN [t EXCEPT
                           !.nodes = [@ EXCEPT ![node].children = Append(@, ch)]
                                     @@ (nxt :> TrieNode),
                           !.count_nodes = @ + 1]
                   ELSE t
         IN insertLoop(t1, word, i + 1, nxt)

\* mutant: freq is assigned only when the node becomes terminal
insertKeepsOldFreq(t, word, freq) ==
    LET r == insertLoop(t, word, 1, root)
        t1 == r.trie
        node == r.node
    IN IF ~t1.nodes[node].is_end
       THEN [t1 EXCEPT !.nodes[node].is_end = TRUE,
                       !.nodes[node].freq = freq,
                       !.count_words = @ + 1]
       ELSE t1

\* mutant: _count_words grows on every insert, also of a stored word
insertAlwaysCounts(t, word, freq) ==
    LET r == insertLoop(t, word, 1, root)
        t1 == r.trie
        node == r.node
    IN [t1 EXCEPT !.nodes[node].is_end = TRUE,
                  !.nodes[node].freq = freq,
                  !.count_words = @ + 1]

insert(t, word, freq) ==
    LET r == insertLoop(t, word, 1, root)
        t1 == r.trie
        node == r.node
        t2 == IF ~t1.nodes[node].is_end
              THEN [t1 EXCEPT !.nodes[node].is_end = TRUE,
                              !.count_words = @ + 1]
              ELSE t1
    IN [t2 EXCEPT !.nodes[node].freq = freq]

\* ---- remove ---------------------------------------------------------------
\* del parent.children[ch]: the key leaves the dict, the child object is freed
delChild(t, parent, child, ch) ==
    [t EXCEPT !.nodes =
        [p \in (DOMAIN t.nodes) \ {child} |->
            IF p = parent
            THEN [t.nodes[p] EXCEPT
                    !.children = SelectSeq(@, LAMBDA c : c # ch)]
            ELSE t.nodes[p]]]

\* mutant: only the word's end node is pruned, its ancestors are not visited
pruneLoopOnce(t, path, i) ==
    IF i < 2
    THEN t
    ELSE LET parent == path[i - 1][1]
             child == path[i][1]
             ch_child == path[i][2]
         IN IF t.nodes[child].children # <<>> \/ t.nodes[child].is_end
            THEN t
            ELSE [delChild(t, parent, child, ch_child)
                     EXCEPT !.count_nodes = @ - 1]

\* mutant: the loop breaks on child.is_end alone, not on child.children
RECURSIVE pruneLoopIgnoresChildren(_, _, _)
pruneLoopIgnoresChildren(t, path, i) ==
    IF i < 2
    THEN t
    ELSE LET parent == path[i - 1][1]
             child == path[i][1]
             ch_child == path[i][2]
         IN IF t.nodes[child].is_end
            THEN t
            ELSE pruneLoopIgnoresChildren(
                     [delChild(t, parent, child, ch_child)
                         EXCEPT !.count_nodes = @ - 1],
                     path, i - 1)

\* for i in range(len(path) - 1, 0, -1), on the 1-based sequence path
RECURSIVE pruneLoop(_, _, _)
pruneLoop(t, path, i) ==
    IF i < 2
    THEN t
    ELSE LET parent == path[i - 1][1]
             child == path[i][1]
             ch_child == path[i][2]
         IN IF t.nodes[child].children # <<>> \/ t.nodes[child].is_end
            THEN t
            ELSE pruneLoop([delChild(t, parent, child, ch_child)
                               EXCEPT !.count_nodes = @ - 1],
                           path, i - 1)

\* mutant: the test `not node.is_end` is missing
removeNoEndCheck(t, word) ==
    LET w == walk(t, word)
    IN IF ~w.found
       THEN [trie |-> t, ret |-> FALSE]
       ELSE LET t1 == [t EXCEPT !.nodes[w.node].is_end = FALSE,
                                !.nodes[w.node].freq = 0,
                                !.count_words = @ - 1]
            IN [trie |-> pruneLoop(t1, w.path, Len(w.path)), ret |-> TRUE]

remove(t, word) ==
    LET w == walk(t, word)
    IN IF ~w.found \/ ~t.nodes[w.node].is_end
       THEN [trie |-> t, ret |-> FALSE]
       ELSE LET t1 == [t EXCEPT !.nodes[w.node].is_end = FALSE,
                                !.nodes[w.node].freq = 0,
                                !.count_words = @ - 1]
            IN [trie |-> pruneLoop(t1, w.path, Len(w.path)), ret |-> TRUE]

\* ---- contains -------------------------------------------------------------
contains(t, word) ==
    LET w == walk(t, word)
    IN w.found /\ t.nodes[w.node].is_end

\* ---- complete -------------------------------------------------------------
\* The heap list is modelled by the set of the pairs it holds (the pairs of
\* one traversal are distinct): heap[0] is its least pair.
heapMin(heap) == CHOOSE p \in heap : \A q \in heap : p = q \/ PairLess(p, q)

heappush(heap, pair) == heap \cup {pair}

\* mutant: the pair is pushed and nothing is popped
heappushpopKeepsAll(heap, pair) == heap \cup {pair}

\* heapq.heappushpop: push, then pop the least; the popped pair is dropped
heappushpop(heap, pair) ==
    IF heap = {}
    THEN heap
    ELSE LET least == heapMin(heap)
         IN IF PairLess(least, pair)
            THEN (heap \ {least}) \cup {pair}
            ELSE heap

\* sorted(node.children): the keys in ascending order
RECURSIVE sortedKeys(_)
sortedKeys(S) ==
    IF S = {} THEN <<>>
    ELSE LET m == CHOOSE x \in S : \A y \in S : x <= y
         IN <<m>> \o sortedKeys(S \ {m})

RECURSIVE explore(_, _, _, _, _)
RECURSIVE exploreKids(_, _, _, _, _, _, _)
explore(t, node, built, heap, k) ==
    LET pair == <<t.nodes[node].freq, built>>
        h1 == IF t.nodes[node].is_end
              THEN IF Cardinality(heap) < k
                   THEN heappush(heap, pair)
                   ELSE heappushpop(heap, pair)
              ELSE heap
    IN exploreKids(t, node, built, sortedKeys(Range(t.nodes[node].children)),
                   1, h1, k)

exploreKids(t, node, built, keys, i, heap, k) ==
    IF i > Len(keys)
    THEN heap
    ELSE exploreKids(t, node, built, keys, i + 1,
                     explore(t, Append(node, keys[i]), Append(built, keys[i]),
                             heap, k),
                     k)

\* mutant: the key (freq, word), ascending in the score
sortKeyLessAscending(p, q) ==
    \/ p[1] < q[1]
    \/ p[1] = q[1] /\ StrLess(p[2], q[2])

\* the key of heap.sort: (-freq, word)
sortKeyLess(p, q) ==
    \/ -p[1] < -q[1]
    \/ -p[1] = -q[1] /\ StrLess(p[2], q[2])

\* heap.sort(key=...): ascending in the key
RECURSIVE heapSort(_)
heapSort(heap) ==
    IF heap = {} THEN <<>>
    ELSE LET m == CHOOSE p \in heap :
                     \A q \in heap : p = q \/ sortKeyLess(p, q)
         IN <<m>> \o heapSort(heap \ {m})

complete(t, prefix, k) ==
    LET start == walk(t, prefix)
    IN IF ~start.found
       THEN <<>>
       ELSE LET heap == explore(t, start.node, prefix, {}, k)
                sorted == heapSort(heap)
            IN [i \in 1 .. Len(sorted) |-> sorted[i][2]]

\* ---- stats ----------------------------------------------------------------
\* mutant: a childless node has height 1 (nodes counted, not symbols)
RECURSIVE heightCountsNodes(_, _)
heightCountsNodes(t, node) ==
    IF t.nodes[node].children = <<>>
    THEN 1
    ELSE 1 + Max({heightCountsNodes(t, Append(node, c)) :
                     c \in Range(t.nodes[node].children)})

RECURSIVE height(_, _)
height(t, node) ==
    IF t.nodes[node].children = <<>>
    THEN 0
    ELSE 1 + Max({height(t, Append(node, c)) :
                     c \in Range(t.nodes[node].children)})

stats(t) == <<t.count_words, height(t, root), t.count_nodes>>

\* ---- items ----------------------------------------------------------------
\* dfs: children are visited in dict order (node.children.items())
RECURSIVE dfs(_, _, _, _)
RECURSIVE dfsKids(_, _, _, _, _)
dfs(t, node, sofar, collected) ==
    LET c1 == IF t.nodes[node].is_end
              THEN Append(collected, <<sofar, t.nodes[node].freq>>)
              ELSE collected
    IN dfsKids(t, node, sofar, 1, c1)

dfsKids(t, node, sofar, i, collected) ==
    IF i > Len(t.nodes[node].children)
    THEN collected
    ELSE LET c == t.nodes[node].children[i]
         IN dfsKids(t, node, sofar, i + 1,
                    dfs(t, Append(node, c), Append(sofar, c), collected))

items(t) == dfs(t, root, <<>>, <<>>)

\* ---- do_load: the loop that builds a fresh index -------------------------
\* t = Trie(); for w, s in data: t.insert(w, s)
RECURSIVE insertAll(_, _, _)
insertAll(t, data, i) ==
    IF i > Len(data)
    THEN t
    ELSE insertAll(insert(t, data[i][1], data[i][2]), data, i + 1)

buildTrie(data) == insertAll(Trie, data, 1)

\* ---- command line: text -----------------------------------------------
\* Characters are symbols: 1, 2 = 'a', 'b'; 11, 12 = 'A', 'B'; 20..29 the
\* digits '0'..'9'; 31 = '.'; 32 = '/'; 40 = ' '.  A str is a sequence of
\* symbols.  Scores are integers: the fractional digits of every number
\* text of the model are zeros.
UpperSyms == 11 .. 12
DigitSyms == 20 .. 29
DotSym == {31}
SlashSym == {32}
SpaceSym == {40}

\* str.lower()
lowerCh(c) == IF c \in UpperSyms THEN c - 10 ELSE c

lower(str) == [i \in 1 .. Len(str) |-> lowerCh(str[i])]

\* str.strip()
RECURSIVE strip(_)
strip(str) ==
    IF str = <<>> THEN str
    ELSE IF str[1] \in SpaceSym THEN strip(Tail(str))
    ELSE IF str[Len(str)] \in SpaceSym
         THEN strip(SubSeq(str, 1, Len(str) - 1))
    ELSE str

isDigits(str) == str # <<>> /\ \A i \in 1 .. Len(str) : str[i] \in DigitSyms

RECURSIVE digitsValue(_)
digitsValue(str) ==
    IF str = <<>> THEN 0
    ELSE 10 * digitsValue(SubSeq(str, 1, Len(str) - 1))
         + (str[Len(str)] - 20)

\* int(k): raised is "ValueError" unless the text is a decimal numeral
pyInt(str) ==
    IF isDigits(str)
    THEN [raised |-> "none", val |-> digitsValue(str)]
    ELSE [raised |-> "ValueError", val |-> 0]

\* float(f): a decimal numeral, or one followed by '.' and zeros
pyFloat(str) ==
    LET dots == {i \in 1 .. Len(str) : str[i] \in DotSym}
    IN IF dots = {}
       THEN pyInt(str)
       ELSE LET d == CHOOSE i \in dots : TRUE
                ip == SubSeq(str, 1, d - 1)
                fp == SubSeq(str, d + 1, Len(str))
            IN IF /\ Cardinality(dots) = 1
                  /\ isDigits(ip)
                  /\ \A i \in 1 .. Len(fp) : fp[i] = 20
               THEN [raised |-> "none", val |-> digitsValue(ip)]
               ELSE [raised |-> "ValueError", val |-> 0]

RECURSIVE digitsOf(_)
digitsOf(n) ==
    IF n < 10 THEN <<20 + n>>
    ELSE Append(digitsOf(n \div 10), 20 + (n % 10))

\* str(freq) of a float, as csv.writer writes it: "1.0"
formatFloat(v) == digitsOf(v) \o <<31, 20>>

\* " ".join(parts[1:])
RECURSIVE joinArgs(_)
joinArgs(args) ==
    IF Len(args) = 1 THEN args[1]
    ELSE args[1] \o <<40>> \o joinArgs(Tail(args))

\* ---- io_utils ------------------------------------------------------------
\* The files: fsys maps the path of every existing file to its rows, a row
\* being the sequence of its fields.  The working directory has no
\* subdirectory, so open() of a path with '/' raises FileNotFoundError, for
\* reading and for writing.
Inaccessible(path) == \E i \in 1 .. Len(path) : path[i] \in SlashSym

CanRead(path, fsys) == path \in DOMAIN fsys

\* the loop over csv.reader(f)
RECURSIVE readRows(_, _, _)
readRows(rows, i, acc) ==
    IF i > Len(rows)
    THEN acc
    ELSE LET row == rows[i]
         IN IF row = <<>>
            THEN readRows(rows, i + 1, acc)
            ELSE LET w == lower(strip(row[1]))
                     parsed == IF Len(row) > 1
                               THEN pyFloat(row[2])
                               ELSE [raised |-> "none", val |-> 0]
                     freq == IF parsed.raised = "none" THEN parsed.val ELSE 0
                 IN readRows(rows, i + 1, Append(acc, <<w, freq>>))

\* open() raises NotADirectoryError, not FileNotFoundError, when the part of
\* the path before a '/' is a file
ParentIsFile(path, fsys) ==
    \E i \in 1 .. Len(path) :
        path[i] \in SlashSym /\ SubSeq(path, 1, i - 1) \in DOMAIN fsys

\* out: what is printed (on standard output)
load_csv(path, fsys) ==
    IF ~CanRead(path, fsys)
    THEN [items |-> <<>>,
          out |-> << [tag |-> IF ParentIsFile(path, fsys)
                              THEN "[load_csv] Error reading"
                              ELSE "[load_csv] File not found",
                      arg |-> path] >>]
    ELSE [items |-> readRows(fsys[path], 1, <<>>), out |-> <<>>]

save_csv(path, pairs, fsys) ==
    IF Inaccessible(path)
    THEN [fs |-> fsys,
          out |-> << [tag |-> "[save_csv] Could not write to", arg |-> path] >>]
    ELSE [fs |-> [q \in (DOMAIN fsys) \cup {path} |->
                     IF q = path
                     THEN [i \in 1 .. Len(pairs) |->
                              <<pairs[i][1], formatFloat(pairs[i][2])>>]
                     ELSE fsys[q]],
          out |-> <<>>]

\* ---- app: the do_ functions ---------------------------------------------
do_load(path, fsys) ==
    LET data == load_csv(path, fsys)
    IN [t |-> buildTrie(data.items), out |-> data.out]

do_save(t, path, fsys) == save_csv(path, items(t), fsys)

do_insert(t, w, f) ==
    LET x == pyFloat(f)
    IN IF x.raised # "none"
       THEN [raised |-> x.raised, t |-> t]
       ELSE [raised |-> "none", t |-> insert(t, lower(w), x.val)]

do_remove(t, w) ==
    LET r == remove(t, lower(w))
    IN [t |-> r.trie,
        out |-> << [tag |-> IF r.ret THEN "OK" ELSE "MISS", arg |-> <<>>] >>]

do_contains(t, w) ==
    [out |-> << [tag |-> IF contains(t, lower(w)) THEN "YES" ELSE "NO",
                 arg |-> <<>>] >>]

do_complete(t, pref, k) ==
    LET k_int == pyInt(k)
    IN IF k_int.raised # "none"
       THEN [raised |-> k_int.raised, out |-> <<>>]
       ELSE [raised |-> "none",
             out |-> << [tag |-> "complete",
                         arg |-> complete(t, lower(pref), k_int.val)] >>]

do_stats(t) == [out |-> << [tag |-> "stats", arg |-> stats(t)] >>]

\* ---- app: handle_command -------------------------------------------------
\* A line is [blank, cmd, args]: blank says that line.strip() is empty, cmd
\* is parts[0] and args is parts[1:].
lowerCmd(c) ==
    CASE c = "QUIT" -> "quit"
      [] c = "Insert" -> "insert"
      [] OTHER -> c

\* mutant: a load that yields no records keeps the index that was there
loadBranchKeepsIndex(t, path, fsys) ==
    LET r == do_load(path, fsys)
    IN IF load_csv(path, fsys).items = <<>>
       THEN [t |-> t, out |-> r.out]
       ELSE r

\* t = do_load(file_path): the index t of the caller is replaced
loadBranch(t, path, fsys) == do_load(path, fsys)

\* the except clauses: what is printed on standard error
exceptClauses(raised, args) ==
    CASE raised = "FileNotFoundError" ->
             << [tag |-> "ERROR: cannot find file", arg |-> args[1]] >>
      [] raised = "OSError" ->
             << [tag |-> "ERROR: file access issue", arg |-> <<>>] >>
      [] OTHER -> <<>>

handle_command(line, t, fsys) ==
    LET same == [keep |-> TRUE, t |-> t, fs |-> fsys,
                 out |-> <<>>, err |-> <<>>]
        cmd == lowerCmd(line.cmd)
        args == line.args
        nparts == 1 + Len(args)
    IN IF line.blank THEN same
       ELSE IF cmd = "quit" THEN [same EXCEPT !.keep = FALSE]
       ELSE IF cmd = "load" /\ nparts >= 2
            THEN LET r == loadBranch(t, joinArgs(args), fsys)
                 IN [same EXCEPT !.t = r.t, !.out = r.out]
       ELSE IF cmd = "save" /\ nparts >= 2
            THEN LET r == do_save(t, joinArgs(args), fsys)
                 IN [same EXCEPT !.fs = r.fs, !.out = r.out]
       ELSE IF cmd = "insert" /\ nparts = 3
            THEN LET r == do_insert(t, args[1], args[2])
                 IN [same EXCEPT !.t = r.t,
                                 !.err = exceptClauses(r.raised, args)]
       ELSE IF cmd = "remove" /\ nparts = 2
            THEN LET r == do_remove(t, args[1])
                 IN [same EXCEPT !.t = r.t, !.out = r.out]
       ELSE IF cmd = "contains" /\ nparts = 2
            THEN [same EXCEPT !.out = do_contains(t, args[1]).out]
       ELSE IF cmd = "complete" /\ nparts = 3
            THEN LET r == do_complete(t, args[1], args[2])
                 IN [same EXCEPT !.out = r.out,
                                 !.err = exceptClauses(r.raised, args)]
       ELSE IF cmd = "stats" /\ nparts = 1
            THEN [same EXCEPT !.out = do_stats(t).out]
       ELSE same

\* ---- the lines typed ----------------------------------------------------
\* "a", "A", "ab"
WordToks == {<<1>>, <<11>>, <<1, 2>>}
\* "0", "1", "1.0", and "a", which is no number
NumToks == {<<20>>, <<21>>, <<21, 31, 20>>, <<1>>}
\* "a" (created by save), "b" (exists from the start), "a/a", "a b"
LoadArgs == {<< <<1>> >>, << <<2>> >>, << <<1, 32, 1>> >>, << <<1>>, <<2>> >>}
SaveArgs == {<< <<1>> >>, << <<1, 32, 1>> >>}

Line(c, a) == [blank |-> FALSE, cmd |-> c, args |-> a]

Lines ==
    {[blank |-> TRUE, cmd |-> "", args |-> <<>>]}
    \cup {Line(c, <<>>) : c \in {"quit", "QUIT", "stats", "help", "load",
                                 "save", "insert", "remove", "complete"}}
    \cup {Line(c, << <<1>> >>) : c \in {"quit", "stats", "insert", "help"}}
    \cup {Line("load", a) : a \in LoadArgs}
    \cup {Line("save", a) : a \in SaveArgs}
    \cup {Line(c, <<w, n>>) : c \in {"insert", "complete"},
                              w \in WordToks, n \in NumToks}
    \cup {Line("Insert", << <<1>>, <<21>> >>)}
    \cup {Line(c, <<w>>) : c \in {"remove", "contains"}, w \in WordToks}
    \cup {Line(c, << <<1>>, <<2>> >>) : c \in {"remove", "contains"}}

\* the file "b": " A" / an empty row / "ab,1" / "a,b"
SeedFiles ==
    ( <<2>> :> << << <<40, 11>> >>, <<>>, << <<1, 2>>, <<21>> >>,
                  << <<1>>, <<2>> >> >> )

NoLine == [blank |-> TRUE, cmd |-> "", args |-> <<>>]

\* ---- state machine --------------------------------------------------------
NoRet == [ok |-> FALSE, words |-> <<>>, stats |-> <<0, 0, 0>>, items |-> <<>>]

NoOp == [name |-> "init", word |-> <<>>, freq |-> 0, k |-> 0]

Init ==
    /\ trie = Trie
    /\ pre = Trie
    /\ op = NoOp
    /\ ret = NoRet
    /\ shadow = <<>>
    /\ cli = [line |-> NoLine, keep_running |-> TRUE, running |-> TRUE,
              out |-> <<>>, err |-> <<>>]
    /\ fs = SeedFiles

Insert(w, f) ==
    /\ contains(trie, w) \/ trie.count_words < MaxWords
    /\ trie' = insert(trie, w, f)
    /\ pre' = trie
    /\ op' = [name |-> "insert", word |-> w, freq |-> f, k |-> 0]
    /\ ret' = NoRet
    /\ shadow' = [v \in (DOMAIN shadow) \cup {w} |->
                      IF v = w THEN f ELSE shadow[v]]
    /\ UNCHANGED <<cli, fs>>

Remove(w) ==
    /\ LET r == remove(trie, w)
       IN /\ trie' = r.trie
          /\ ret' = [NoRet EXCEPT !.ok = r.ret]
    /\ pre' = trie
    /\ op' = [name |-> "remove", word |-> w, freq |-> 0, k |-> 0]
    /\ shadow' = [v \in (DOMAIN shadow) \ {w} |-> shadow[v]]
    /\ UNCHANGED <<cli, fs>>

\* mutant: the walk of a query creates the nodes it does not find
ContainsCreatesPath(w) ==
    /\ op' = [name |-> "contains", word |-> w, freq |-> 0, k |-> 0]
    /\ ret' = [NoRet EXCEPT !.ok = contains(trie, w)]
    /\ pre' = trie
    /\ trie' = insertLoop(trie, w, 1, root).trie
    /\ UNCHANGED <<shadow, cli, fs>>

Contains(w) ==
    /\ op' = [name |-> "contains", word |-> w, freq |-> 0, k |-> 0]
    /\ ret' = [NoRet EXCEPT !.ok = contains(trie, w)]
    /\ pre' = trie
    /\ UNCHANGED <<trie, shadow, cli, fs>>

Complete(prefix, k) ==
    /\ op' = [name |-> "complete", word |-> prefix, freq |-> 0, k |-> k]
    /\ ret' = [NoRet EXCEPT !.words = complete(trie, prefix, k)]
    /\ pre' = trie
    /\ UNCHANGED <<trie, shadow, cli, fs>>

Stats ==
    /\ op' = [name |-> "stats", word |-> <<>>, freq |-> 0, k |-> 0]
    /\ ret' = [NoRet EXCEPT !.stats = stats(trie)]
    /\ pre' = trie
    /\ UNCHANGED <<trie, shadow, cli, fs>>

Items ==
    /\ op' = [name |-> "items", word |-> <<>>, freq |-> 0, k |-> 0]
    /\ ret' = [NoRet EXCEPT !.items = items(trie)]
    /\ pre' = trie
    /\ UNCHANGED <<trie, shadow, cli, fs>>

Next ==
    \/ \E w \in Words, f \in Scores : Insert(w, f)
    \/ \E w \in Words : Remove(w)
    \/ \E w \in Words : Contains(w)
    \/ \E p \in Words, k \in KVals : Complete(p, k)
    \/ Stats
    \/ Items

Spec == Init /\ [][Next]_vars

\* ---- app.main: the command loop --------------------------------------------
\* for line in sys.stdin: keep_running, trie = handle_command(line, trie)
HandleLine(line) ==
    /\ cli.running
    /\ LET r == handle_command(line, trie, fs)
       IN /\ trie' = r.t
          /\ fs' = r.fs
          /\ cli' = [line |-> line, keep_running |-> r.keep,
                     running |-> r.keep, out |-> r.out, err |-> r.err]
    /\ pre' = trie
    /\ UNCHANGED <<op, ret, shadow>>

\* sys.stdin is exhausted: the for loop ends
EndOfInput ==
    /\ cli.running
    /\ cli' = [cli EXCEPT !.running = FALSE]
    /\ UNCHANGED <<trie, pre, op, ret, shadow, fs>>

CliNext ==
    \/ \E line \in Lines : HandleLine(line)
    \/ EndOfInput

CliSpec == Init /\ [][CliNext]_vars

\* ---- vocabulary of the properties ----------------------------------------
IsPrefix(p, w) == Len(p) <= Len(w) /\ SubSeq(w, 1, Len(p)) = p

\* the nodes reachable from the root through the children dicts
RECURSIVE reachFrom(_, _)
reachFrom(t, p) ==
    {p} \cup UNION {reachFrom(t, Append(p, c)) :
                       c \in Range(t.nodes[p].children)}

Reach(t) == reachFrom(t, root)

\* the stored words: the paths of the terminal nodes
Stored(t) == {p \in Reach(t) : t.nodes[p].is_end}

ScoreOf(t, w) == t.nodes[w].freq

Matching(t, prefix) == {w \in Stored(t) : IsPrefix(prefix, w)}

\* a ranks before b: higher score first, then the smaller word
RanksBefore(t, a, b) ==
    \/ ScoreOf(t, a) > ScoreOf(t, b)
    \/ ScoreOf(t, a) = ScoreOf(t, b) /\ StrLess(a, b)

\* ---- C1 -------------------------------------------------------------------
\* C1: complete(prefix, k), k >= 0, selects the best candidates: every
\* returned word ranks before (higher score, then lexicographically smaller
\* word) every stored word with that prefix that is not returned.
C1_BestCandidates ==
    (op.name = "complete" /\ op.k >= 0) =>
        \A r \in Range(ret.words) :
            \A m \in Matching(trie, op.word) \ Range(ret.words) :
                RanksBefore(trie, r, m)

\* ---- C2 -------------------------------------------------------------------
\* C2: complete(prefix, k), k >= 0, returns exactly min(k, M) words, M the
\* number of stored words that start with prefix; the returned words are
\* pairwise distinct and each is a stored word that starts with prefix.
C2_ExactCount ==
    (op.name = "complete" /\ op.k >= 0) =>
        /\ Len(ret.words) = Min2(op.k, Cardinality(Matching(trie, op.word)))
        /\ \A i, j \in 1 .. Len(ret.words) :
               i # j => ret.words[i] # ret.words[j]
        /\ Range(ret.words) \subseteq Matching(trie, op.word)

\* a call that had to leave matching words out
C2_Witness ==
    /\ op.name = "complete"
    /\ op.k = 2
    /\ Cardinality(Matching(trie, op.word)) = 3
    /\ Len(ret.words) = 2

\* ---- C3 -------------------------------------------------------------------
\* C3: the list complete returns is ordered by score descending and, for
\* equal scores, by word ascending: adjacent a, b have score(a) > score(b),
\* or score(a) = score(b) and a < b.
C3_Ordered ==
    op.name = "complete" =>
        \A i \in 1 .. Len(ret.words) - 1 :
            LET a == ret.words[i]
                b == ret.words[i + 1]
            IN \/ ScoreOf(trie, a) > ScoreOf(trie, b)
               \/ ScoreOf(trie, a) = ScoreOf(trie, b) /\ StrLess(a, b)

\* a returned list of two words with different scores
C3_Witness ==
    /\ op.name = "complete"
    /\ Len(ret.words) = 2
    /\ ScoreOf(trie, ret.words[1]) > ScoreOf(trie, ret.words[2])

\* ---- C4 -------------------------------------------------------------------
\* C4: remove(W) returns false and changes nothing (tree, word_count,
\* node_count) when W is not stored; when W is stored it returns true, after
\* which contains(W) is false and a repeated remove(W) returns false.
C4_RemoveCorrect ==
    op.name = "remove" =>
        IF op.word \in Stored(pre)
        THEN /\ ret.ok
             /\ ~contains(trie, op.word)
             /\ ~remove(trie, op.word).ret
        ELSE /\ ~ret.ok
             /\ trie = pre

\* a failed remove of a word whose path exists as a proper prefix only
C4_Witness ==
    /\ op.name = "remove"
    /\ ~ret.ok
    /\ op.word # root
    /\ op.word \in Reach(pre)

\* ---- C5 -------------------------------------------------------------------
\* C5: pruning invariant: no node other than the root is both childless and
\* non-terminal.
C5_NoDeadLeaves ==
    \A p \in Reach(trie) \ {root} :
        trie.nodes[p].children # <<>> \/ trie.nodes[p].is_end

\* a remove that pruned two nodes and left other words in place
C5_Witness ==
    /\ op.name = "remove"
    /\ ret.ok
    /\ pre.count_nodes - trie.count_nodes = 2
    /\ trie.count_words >= 1

\* ---- C6 -------------------------------------------------------------------
\* C6: the counters are exact: the node_count of stats() is the number of
\* nodes reachable from the root (root included), the word_count of stats()
\* is the number of terminal nodes, which is the length of items().
C6_CountersExact ==
    /\ stats(trie)[3] = Cardinality(Reach(trie))
    /\ stats(trie)[1] = Cardinality(Stored(trie))
    /\ stats(trie)[1] = Len(items(trie))
    /\ op.name = "stats" =>
           /\ ret.stats[3] = Cardinality(Reach(trie))
           /\ ret.stats[1] = Len(items(trie))

\* stats() called on an index whose words share nodes
C6_Witness ==
    /\ op.name = "stats"
    /\ ret.stats[1] = 3
    /\ ret.stats[3] = 3

\* ---- C7 -------------------------------------------------------------------
\* C7: the height of stats() is the maximum length of a word of items(),
\* and 0 when no word is stored.
ItemWords(t) ==
    LET its == items(t)
    IN {its[i][1] : i \in 1 .. Len(its)}

C7_Height ==
    LET words == ItemWords(trie)
    IN stats(trie)[2] = IF words = {}
                        THEN 0
                        ELSE Max({Len(w) : w \in words})

\* the longest word was removed and the height went down with it
C7_Witness ==
    /\ op.name = "remove"
    /\ ret.ok
    /\ Len(op.word) = 2
    /\ stats(pre)[2] = 2
    /\ stats(trie)[2] = 1

\* ---- C8 -------------------------------------------------------------------
\* C8: after insert(W, S), W possibly empty, contains(W) is true and items()
\* contains exactly one pair whose word is W, and that pair's score is S.
C8_InsertRoundTrip ==
    op.name = "insert" =>
        LET its == items(trie)
            at == {i \in 1 .. Len(its) : its[i][1] = op.word}
        IN /\ contains(trie, op.word)
           /\ Cardinality(at) = 1
           /\ \A i \in at : its[i][2] = op.freq

\* the empty word inserted into an index that holds other words
C8_Witness ==
    /\ op.name = "insert"
    /\ op.word = <<>>
    /\ pre.count_words >= 1
    /\ ~contains(pre, <<>>)

\* ---- C9 -------------------------------------------------------------------
\* C9: re-inserting a stored word leaves word_count, node_count and the tree
\* shape unchanged and changes only that word's score, to the latest value.
C9_ReinsertIdempotent ==
    (op.name = "insert" /\ op.word \in Stored(pre)) =>
        /\ trie.count_words = pre.count_words
        /\ trie.count_nodes = pre.count_nodes
        /\ DOMAIN trie.nodes = DOMAIN pre.nodes
        /\ \A p \in DOMAIN pre.nodes :
               /\ trie.nodes[p].children = pre.nodes[p].children
               /\ trie.nodes[p].is_end = pre.nodes[p].is_end
               /\ trie.nodes[p].freq =
                      IF p = op.word THEN op.freq ELSE pre.nodes[p].freq

\* a stored word re-inserted with another score, next to another word
C9_Witness ==
    /\ op.name = "insert"
    /\ op.word \in Stored(pre)
    /\ ScoreOf(pre, op.word) # op.freq
    /\ pre.count_words >= 2

\* ---- C10 ------------------------------------------------------------------
\* C10: a successful remove(W) affects no other word: contains(V) and V's
\* score are the same before and after for every V # W; pruning removes the
\* nodes of W's path below the first node, walking up from W's end node,
\* that still has children or is terminal, and never the root.
StillUsed(t, W, q) ==
    IF q = W
    THEN t.nodes[q].children # <<>>
    ELSE \/ t.nodes[q].is_end
         \/ Range(t.nodes[q].children) \ {W[Len(q) + 1]} # {}

PathOf(W) == {SubSeq(W, 1, n) : n \in 0 .. Len(W)}

\* the length of the path to the node at which the walk up stops
StopLen(t, W) ==
    Max({Len(q) : q \in {q \in PathOf(W) : q = root \/ StillUsed(t, W, q)}})

C10_RemoveFrame ==
    (op.name = "remove" /\ ret.ok) =>
        /\ \A V \in Words \ {op.word} :
               /\ contains(trie, V) = contains(pre, V)
               /\ contains(pre, V) => ScoreOf(trie, V) = ScoreOf(pre, V)
        /\ root \in DOMAIN trie.nodes
        /\ Reach(trie) =
               Reach(pre) \ {p \in PathOf(op.word) :
                                Len(p) > StopLen(pre, op.word)}

\* car removed while cart is stored: a stored word extends the removed one
C10_Witness ==
    /\ op.name = "remove"
    /\ ret.ok
    /\ \E V \in Stored(trie) : V # op.word /\ IsPrefix(op.word, V)

\* ---- C11 ------------------------------------------------------------------
\* C11: complete(prefix, k) returns the empty sequence and leaves the index
\* unchanged whenever k <= 0 or no stored word starts with prefix.
C11_EmptyResult ==
    (op.name = "complete" /\ (op.k <= 0 \/ Matching(pre, op.word) = {})) =>
        /\ ret.words = <<>>
        /\ trie = pre

\* a negative k on a prefix that has stored words
C11_Witness ==
    /\ op.name = "complete"
    /\ op.k < 0
    /\ Cardinality(Matching(trie, op.word)) >= 2

\* ---- C12 ------------------------------------------------------------------
\* C12: prefix closure: the non-root nodes, named by their path from the
\* root, are exactly the non-empty prefixes of the stored words; a node for
\* a non-empty path p exists iff some stored word starts with p.
C12_PrefixClosure ==
    LET words == ItemWords(trie)
    IN /\ Reach(trie) \ {root} = UNION {PathOf(w) : w \in words} \ {root}
       /\ \A p \in Words \ {root} :
              walk(trie, p).found <=> \E w \in words : IsPrefix(p, w)

\* a remove pruned the end node only: its parent still leads to a word
C12_Witness ==
    /\ op.name = "remove"
    /\ ret.ok
    /\ Len(op.word) = 2
    /\ pre.count_nodes - trie.count_nodes = 1
    /\ walk(trie, SubSeq(op.word, 1, 1)).found

\* ---- C13 ------------------------------------------------------------------
\* C13: items() visits children in symbol-ascending order: the emitted
\* sequence lists the stored words in ascending lexicographic order (so the
\* order in which the words were inserted does not show in it).
C13_ItemsAscending ==
    LET its == items(trie)
    IN \A i \in 1 .. Len(its) - 1 : StrLess(its[i][1], its[i + 1][1])

\* ---- C14 ------------------------------------------------------------------
\* C14: contains, complete, stats and items are read-only: the tree (nodes,
\* terminal flags, scores), word_count and node_count are as before the call.
C14_QueriesReadOnly ==
    op.name \in {"contains", "complete", "stats", "items"} =>
        /\ trie.nodes = pre.nodes
        /\ trie.count_words = pre.count_words
        /\ trie.count_nodes = pre.count_nodes

\* contains asked for a word that is not stored, on an index with words
C14_Witness ==
    /\ op.name = "contains"
    /\ ~ret.ok
    /\ trie.count_words >= 2

\* ---- C17 ------------------------------------------------------------------
\* C17: the index refines a finite map from word to score: contains(W) iff
\* W was inserted and not successfully removed since its latest insert, and
\* items(), as a set, is exactly the pairs (W, S) of that map, S the score
\* of W's latest insert, each stored word once.
C17_RefinesMap ==
    LET its == items(trie)
    IN /\ \A w \in Words : contains(trie, w) <=> w \in DOMAIN shadow
       /\ Range(its) = {<<w, shadow[w]>> : w \in DOMAIN shadow}
       /\ Len(its) = Cardinality(DOMAIN shadow)

\* a word was removed while two others stay in the map
C17_Witness ==
    /\ op.name = "remove"
    /\ ret.ok
    /\ Cardinality(DOMAIN shadow) = 2
    /\ op.word \notin DOMAIN shadow

\* ---- C18 ------------------------------------------------------------------
\* C18: the tree is canonical for its content: a fresh index built by
\* inserting every pair of items() has the same set of items() pairs and
\* the same stats() triple (word_count, height, node_count).
C18_Canonical ==
    LET its == items(trie)
        fresh == buildTrie(its)
        again == items(fresh)
    IN /\ Range(again) = Range(its)
       /\ stats(fresh) = stats(trie)

\* the index was reached by a remove that pruned nodes and left words
C18_Witness ==
    /\ op.name = "remove"
    /\ ret.ok
    /\ trie.count_nodes < pre.count_nodes
    /\ trie.count_words >= 2

\* ---- C15 ------------------------------------------------------------------
\* C15: a line that is blank, names an unknown command, gives a known
\* command the wrong number of arguments, or gives insert/complete an
\* unparsable number leaves the index unchanged and keeps the session
\* running; only quit returns keep-running false, after which no further
\* line is processed.
KnownCmds == {"quit", "load", "save", "insert", "remove", "contains",
              "complete", "stats"}

\* the number of arguments of the command list of app.py; load and save take
\* a path, which may hold spaces and so spread over several words
WrongArity(c, n) ==
    CASE c \in {"quit", "stats"} -> n # 0
      [] c \in {"load", "save"} -> n < 1
      [] c \in {"remove", "contains"} -> n # 1
      [] c \in {"insert", "complete"} -> n # 2
      [] OTHER -> FALSE

Malformed(l) ==
    \/ l.blank
    \/ lowerCmd(l.cmd) \notin KnownCmds
    \/ WrongArity(lowerCmd(l.cmd), Len(l.args))
    \/ /\ lowerCmd(l.cmd) = "insert"
       /\ Len(l.args) = 2
       /\ pyFloat(l.args[2]).raised # "none"
    \/ /\ lowerCmd(l.cmd) = "complete"
       /\ Len(l.args) = 2
       /\ pyInt(l.args[2]).raised # "none"

C15_MalformedIgnored ==
    /\ Malformed(cli.line) => (trie = pre /\ cli.keep_running)
    /\ ~cli.keep_running =>
           (~cli.line.blank /\ lowerCmd(cli.line.cmd) = "quit" /\ ~cli.running)

\* ---- C16 ------------------------------------------------------------------
\* C16: when a load or save command names a file that cannot be found or
\* accessed, the failure is reported on the error stream together with the
\* offending path, and the session continues.
FileFailure(l, fsys) ==
    /\ ~l.blank
    /\ Len(l.args) >= 1
    /\ \/ lowerCmd(l.cmd) = "load" /\ ~CanRead(joinArgs(l.args), fsys)
       \/ lowerCmd(l.cmd) = "save" /\ Inaccessible(joinArgs(l.args))

C16_ReportedOnStderr ==
    FileFailure(cli.line, fs) =>
        /\ \E i \in 1 .. Len(cli.err) :
               cli.err[i].arg \in {joinArgs(cli.line.args), cli.line.args[1]}
        /\ cli.keep_running

\* ---- C19 ------------------------------------------------------------------
\* C19: a load command always replaces the current index, also when it
\* fails: if the file is missing or unreadable, load_csv yields no records
\* and the session continues with an empty index (words=0, height=0,
\* nodes=1), so every word held before the load is no longer contained.
IsLoad(l) == ~l.blank /\ lowerCmd(l.cmd) = "load" /\ Len(l.args) >= 1

C19_LoadReplaces ==
    IsLoad(cli.line) =>
        LET path == joinArgs(cli.line.args)
        IN /\ Range(items(trie)) = Range(load_csv(path, fs).items)
           /\ ~CanRead(path, fs) =>
                  /\ load_csv(path, fs).items = <<>>
                  /\ cli.keep_running
                  /\ stats(trie) = <<0, 0, 1>>
                  /\ \A w \in Stored(pre) : ~contains(trie, w)

\* a load of a missing file while the index held two words
C19_Witness ==
    /\ IsLoad(cli.line)
    /\ ~CanRead(joinArgs(cli.line.args), fs)
    /\ pre.count_words = 2
    /\ cli.running

====
